---- MODULE Spec2Model ----
(***************************************************************************)
(* Model of streamlit_app.py: the electricity-data loader                  *)
(* (get_electricity_data) and the page script that derives the per-country *)
(* percent-change metrics from the normalized table.                       *)
(*                                                                         *)
(* Strings are sequences of one-character strings, so that str.strip(),    *)
(* float() / int() parsing and the lexicographic sort of pivot_table are   *)
(* computed rather than assumed.  A float is a pair <<n, d>>: a reduced    *)
(* fraction when d > 0, NaN when <<0, 0>>, +inf / -inf when <<1, 0>> /     *)
(* <<-1, 0>>.                                                              *)
(***************************************************************************)
EXTENDS Integers, Sequences, FiniteSets, TLC

VARIABLES
    csv,                 \* the contents of data/electricity_data.csv
    pc,                  \* where the script is, or the exception that ended it
    elec_df,             \* the normalized table get_electricity_data returned
    from_year, to_year,  \* the ends of the year slider
    selected_countries,  \* the multiselect's countries, in the order picked
    selected_features,   \* the ticked features, in column order
    first_year,          \* the filtered rows at from_year
    last_year,           \* the filtered rows at to_year
    fi, ci,              \* positions of the feature loop and the country loop
    metrics              \* the st.metric cards shown so far

vars == <<csv, pc, elec_df, from_year, to_year, selected_countries,
          selected_features, first_year, last_year, fi, ci, metrics>>

\* Largest number of data rows of the CSV file the model explores.
MaxRows == 2

-----------------------------------------------------------------------------
(* Strings                                                                 *)

\* The characters used by the model's inputs, in code-point order.
Alphabet == <<" ", "-", "/", "0", "1", "2", "5", "A", "D", "E", "F", "G", "L",
              "N", "R", "U", "a", "c", "e", "g", "i", "l", "n", "o", "s", "u">>

Ord(c) == CHOOSE i \in 1..Len(Alphabet) : Alphabet[i] = c

\* Python's ordering of str: lexicographic by code point, a proper prefix first.
RECURSIVE StrLess(_, _)
StrLess(s, t) ==
    IF t = <<>> THEN FALSE
    ELSE IF s = <<>> THEN TRUE
    ELSE IF Head(s) = Head(t) THEN StrLess(Tail(s), Tail(t))
    ELSE Ord(Head(s)) < Ord(Head(t))

\* pd.NA / NaN in an object column.
NA == <<"<NA>">>

IsNA(x) == x = NA

Whitespace == {" "}

RECURSIVE LStrip(_)
LStrip(s) ==
    IF s # <<>> /\ Head(s) \in Whitespace THEN LStrip(Tail(s)) ELSE s

RECURSIVE RStrip(_)
RStrip(s) ==
    IF s # <<>> /\ s[Len(s)] \in Whitespace
    THEN RStrip(SubSeq(s, 1, Len(s) - 1)) ELSE s

\* Mutant: strips leading whitespace only.
StrStripLeftOnly(x) == IF IsNA(x) THEN NA ELSE LStrip(x)

\* Series.str.strip() on one cell: NaN stays NaN.
StrStrip(x) == IF IsNA(x) THEN NA ELSE RStrip(LStrip(x))

-----------------------------------------------------------------------------
(* Numbers                                                                 *)

Digits == {"0", "1", "2", "5"}

DigitVal(c) == CASE c = "0" -> 0 [] c = "1" -> 1 [] c = "2" -> 2 [] c = "5" -> 5

RECURSIVE DecVal(_)
DecVal(s) == IF s = <<>> THEN 0 ELSE 10 * DecVal(SubSeq(s, 1, Len(s) - 1)) + DigitVal(s[Len(s)])

IsDecimal(s) == s # <<>> /\ \A i \in 1..Len(s) : s[i] \in Digits

Abs(n) == IF n < 0 THEN -n ELSE n

RECURSIVE Gcd(_, _)
Gcd(a, b) == IF b = 0 THEN a ELSE Gcd(b, a % b)

NaN == <<0, 0>>
PosInf == <<1, 0>>
NegInf == <<-1, 0>>

IsNaN(x) == x = NaN

IsFinite(x) == x[2] > 0

\* n / d as a float, d > 0.
Frac(n, d) == LET g == Gcd(Abs(n), d) IN <<n \div g, d \div g>>

Sub(x, y) ==
    IF IsFinite(x) /\ IsFinite(y) THEN Frac(x[1] * y[2] - y[1] * x[2], x[2] * y[2])
    ELSE IF IsNaN(x) \/ IsNaN(y) THEN NaN
    ELSE IF IsFinite(y) THEN x
    ELSE IF IsFinite(x) THEN <<-y[1], 0>>
    ELSE IF x = y THEN NaN ELSE x

MulInt(k, x) == IF IsFinite(x) THEN Frac(k * x[1], x[2]) ELSE x

Sign(n) == IF n > 0 THEN 1 ELSE IF n < 0 THEN -1 ELSE 0

\* numpy.float64 division: x / 0 is +-inf, 0 / 0 is nan, no exception.
Div(x, y) ==
    IF IsNaN(x) \/ IsNaN(y) THEN NaN
    ELSE IF ~IsFinite(x) THEN (IF IsFinite(y) /\ y[1] # 0 THEN <<x[1] * Sign(y[1]), 0>>
                               ELSE IF IsFinite(y) THEN x ELSE NaN)
    ELSE IF ~IsFinite(y) THEN <<0, 1>>
    ELSE IF y[1] = 0 THEN <<Sign(x[1]), 0>>
    ELSE Frac(Sign(y[1]) * x[1] * y[2], x[2] * Abs(y[1]))

\* round-half-even of n / d to an integer, d > 0.
RoundHalfEven(n, d) ==
    LET q == n \div d
        r == n % d
    IN  IF 2 * r < d THEN q
        ELSE IF 2 * r > d THEN q + 1
        ELSE IF q % 2 = 0 THEN q ELSE q + 1

-----------------------------------------------------------------------------
(* The loader: get_electricity_data                                        *)

\* Strings that pd.read_csv reads as NaN by default (those the alphabet spells).
DefaultNaValues == {<<>>, <<"N", "A">>, <<"N", "/", "A">>, <<"N", "a", "N">>,
                    <<"n", "a", "n">>, <<"n", "/", "a">>, <<"N", "U", "L", "L">>,
                    <<"n", "u", "l", "l">>}

ReadCell(x) == IF x \in DefaultNaValues THEN NA ELSE x

\* pd.read_csv(DATA_FILENAME): the header names the columns, every field is
\* kept as written except the default NaN spellings.
ReadCsv(file) ==
    [years |-> file.header,
     rows  |-> [i \in 1..Len(file.rows) |->
                  [Country  |-> ReadCell(file.rows[i].Country),
                   Features |-> ReadCell(file.rows[i].Features),
                   Region   |-> ReadCell(file.rows[i].Region),
                   cells    |-> [j \in 1..Len(file.rows[i].cells) |->
                                   ReadCell(file.rows[i].cells[j])]]]]

ReplaceCell(x, token, by) == IF x = token THEN by ELSE x

ReplaceAll(df, token, by) ==
    [years |-> df.years,
     rows  |-> [i \in 1..Len(df.rows) |->
                  [Country  |-> ReplaceCell(df.rows[i].Country, token, by),
                   Features |-> ReplaceCell(df.rows[i].Features, token, by),
                   Region   |-> ReplaceCell(df.rows[i].Region, token, by),
                   cells    |-> [j \in 1..Len(df.rows[i].cells) |->
                                   ReplaceCell(df.rows[i].cells[j], token, by)]]]]

\* Mutant: the token is replaced by a zero instead of a missing value.
ReplaceWithZero(df, token) == ReplaceAll(df, token, <<"0">>)

\* DataFrame.replace(token, pd.NA): every cell of the table equal to token.
Replace(df, token) == ReplaceAll(df, token, NA)

Dashes == <<"-", "-">>
Ie == <<"i", "e">>
Blank == <<>>

\* raw_df['Country'].str.strip(), raw_df['Features'].str.strip()
StripColumns(df) ==
    [years |-> df.years,
     rows  |-> [i \in 1..Len(df.rows) |->
                  [df.rows[i] EXCEPT !.Country = StrStrip(@), !.Features = StrStrip(@)]]]

\* DataFrame.melt(id_vars=[Country, Features, Region]): one long row per
\* (raw row, year column), column by column.
Melt(df) ==
    LET n == Len(df.rows)
        m == Len(df.years)
    IN  [k \in 1..(n * m) |->
           LET j == ((k - 1) \div n) + 1
               i == ((k - 1) % n) + 1
           IN  [Country  |-> df.rows[i].Country,
                Features |-> df.rows[i].Features,
                Region   |-> df.rows[i].Region,
                Year     |-> df.years[j],
                Value    |-> df.rows[i].cells[j]]]

\* raw_df['Year'].astype('int')
YearAsInt(long) == [k \in 1..Len(long) |-> [long[k] EXCEPT !.Year = DecVal(@)]]

HasNA(r) == IsNA(r.Country) \/ IsNA(r.Features) \/ IsNA(r.Region) \/ IsNA(r.Value)

\* DataFrame.dropna(): a long row goes when ANY of its columns is missing.
DropNa(long) == SelectSeq(long, LAMBDA r : ~HasNA(r))

\* float(str): surrounding whitespace is ignored, the rest must be a number.
CanParseFloat(x) == ~IsNA(x) /\ IsDecimal(StrStrip(x))

ParseFloat(x) == IF IsNA(x) THEN NaN ELSE <<DecVal(StrStrip(x)), 1>>

\* raw_df['Value'].astype('float') raises ValueError on the first bad string.
AsTypeFloatRaises(long) == \E k \in 1..Len(long) : ~IsNA(long[k].Value) /\ ~CanParseFloat(long[k].Value)

AsTypeFloat(long) == [k \in 1..Len(long) |-> [long[k] EXCEPT !.Value = ParseFloat(@)]]

RECURSIVE SumNum(_, _)
SumNum(vals, k) ==
    IF k = 0 THEN <<0, 1>>
    ELSE LET s == SumNum(vals, k - 1)
         IN  Frac(s[1] * vals[k][2] + vals[k][1] * s[2], s[2] * vals[k][2])

\* aggfunc='mean' over the non-NaN values of one group; NaN for an empty group.
Mean(vals) ==
    LET ok == SelectSeq(vals, LAMBDA v : ~IsNaN(v))
        s  == SumNum(ok, Len(ok))
    IN  IF Len(ok) = 0 THEN NaN ELSE Frac(s[1], s[2] * Len(ok))

KeyLess(a, b) ==
    \/ StrLess(a[1], b[1])
    \/ a[1] = b[1] /\ StrLess(a[2], b[2])
    \/ a[1] = b[1] /\ a[2] = b[2] /\ a[3] < b[3]

RECURSIVE SortStrs(_)
SortStrs(S) ==
    IF S = {} THEN <<>>
    ELSE LET lo == CHOOSE x \in S : \A y \in S \ {x} : StrLess(x, y)
         IN  <<lo>> \o SortStrs(S \ {lo})

RECURSIVE SortKeys(_)
SortKeys(S) ==
    IF S = {} THEN <<>>
    ELSE LET lo == CHOOSE x \in S : \A y \in S \ {x} : KeyLess(x, y)
         IN  <<lo>> \o SortKeys(S \ {lo})

GroupKey(r) == <<r.Country, r.Region, r.Year>>

\* Mutant: one output row per long row, nothing grouped.
PivotRowsUngrouped(long) ==
    [k \in 1..Len(long) |->
       [Country |-> long[k].Country, Region |-> long[k].Region, Year |-> long[k].Year,
        vals |-> [f \in {long[i].Features : i \in 1..Len(long)} |->
                    IF f = long[k].Features THEN long[k].Value ELSE NaN]]]

\* Mutant: dropna=False, the index is the product of its levels and no
\* all-NaN row is dropped.
PivotRowsDropnaFalse(long) ==
    LET idx    == 1..Len(long)
        cell(key, f) == Mean([k \in idx |-> IF GroupKey(long[k]) = key /\ long[k].Features = f
                                            THEN long[k].Value ELSE NaN])
        feats  == {long[k].Features : k \in idx}
        keys   == {long[k].Country : k \in idx} \X {long[k].Region : k \in idx}
                     \X {long[k].Year : k \in idx}
        sorted == SortKeys(keys)
    IN  [i \in 1..Len(sorted) |->
           [Country |-> sorted[i][1], Region |-> sorted[i][2], Year |-> sorted[i][3],
            vals    |-> [f \in feats |-> cell(sorted[i], f)]]]

\* The rows of pivot_table(values='Value', index=[Country, Region, Year],
\* columns='Features'): one per group, sorted by the index, the mean of the
\* group's values under each feature; groups and features that hold no value
\* at all are dropped (dropna=True).
PivotRows(long) ==
    LET idx    == 1..Len(long)
        cell(key, f) == Mean([k \in idx |-> IF GroupKey(long[k]) = key /\ long[k].Features = f
                                            THEN long[k].Value ELSE NaN])
        feats  == {f \in {long[k].Features : k \in idx} :
                     \E k \in idx : ~IsNaN(cell(GroupKey(long[k]), f))}
        keys   == {key \in {GroupKey(long[k]) : k \in idx} : \E f \in feats : ~IsNaN(cell(key, f))}
        sorted == SortKeys(keys)
    IN  [i \in 1..Len(sorted) |->
           [Country |-> sorted[i][1], Region |-> sorted[i][2], Year |-> sorted[i][3],
            vals    |-> [f \in feats |-> cell(sorted[i], f)]]]

\* pivot_table(...) followed by reset_index(): the feature columns in sorted
\* order and the rows with Country, Region and Year as ordinary columns.
PivotTable(long) ==
    LET rows == PivotRows(long)
    IN  [columns |-> SortStrs(UNION {DOMAIN rows[i].vals : i \in 1..Len(rows)}),
         rows    |-> rows]

\* The long table just before astype('float'): read, clean, strip, melt, drop.
LongTable(file) ==
    DropNa(YearAsInt(Melt(StripColumns(
        Replace(Replace(Replace(ReadCsv(file), Dashes), Ie), Blank)))))

EmptyFrame == [columns |-> <<>>, rows |-> <<>>]

-----------------------------------------------------------------------------
(* Inputs                                                                  *)

FR == <<"F", "R">>
DE == <<"D", "E">>
EU == <<"E", "U">>
gen == <<"g", "e", "n">>
cons == <<"c", "o", "n", "s">>
Y2000 == <<"2", "0", "0", "0">>
Y2002 == <<"2", "0", "0", "2">>

\* CSV rows that exercise the cleaning: padded and differently cased names,
\* empty key cells, sentinels, a padded sentinel, a default NaN spelling.
LoadRows ==
    [Country  : {FR, <<" ">> \o FR},
     Features : {gen, gen \o <<" ">>, <<"G", "e", "n">>},
     Region   : {EU, <<>>},
     cells    : {<<c>> : c \in {Dashes, Ie, Blank, <<" ">> \o Dashes, <<"N", "A">>,
                                <<"1", "0", "0">>, <<"1", "5", "0">>}}]

\* CSV rows that exercise the metrics: two countries, two features, values
\* present, zero or missing at either end of the period.
CalcRows ==
    [Country  : {FR, DE},
     Features : {gen, cons},
     Region   : {EU},
     cells    : {<<a, b>> : a \in {Dashes, <<"0">>, <<"1", "0", "0">>},
                           b \in {Dashes, <<"1", "5", "0">>}}]

Tables(header, Rows) ==
    {[header |-> header, rows |-> r] : r \in UNION {[1..n -> Rows] : n \in 1..MaxRows}}

InitRest ==
    /\ pc = "load"
    /\ elec_df = EmptyFrame
    /\ from_year = 0
    /\ to_year = 0
    /\ selected_countries = <<>>
    /\ selected_features = <<>>
    /\ first_year = <<>>
    /\ last_year = <<>>
    /\ fi = 1
    /\ ci = 1
    /\ metrics = <<>>

InitLoad == csv \in Tables(<<Y2000>>, LoadRows) /\ InitRest

Init == csv \in Tables(<<Y2000, Y2002>>, CalcRows) /\ InitRest

-----------------------------------------------------------------------------
(* Actions                                                                 *)

\* elec_df = get_electricity_data(): the ValueError of astype('float')
\* leaves the script without a table.
GetElectricityData ==
    /\ pc = "load"
    /\ LET long == LongTable(csv)
       IN  IF AsTypeFloatRaises(long)
           THEN /\ pc' = "ValueError"
                /\ elec_df' = elec_df
           ELSE /\ pc' = "settings"
                /\ elec_df' = PivotTable(AsTypeFloat(long))
    /\ UNCHANGED <<csv, from_year, to_year, selected_countries, selected_features,
                   first_year, last_year, fi, ci, metrics>>

YearsOf(df) == {df.rows[i].Year : i \in 1..Len(df.rows)}

Min(S) == CHOOSE x \in S : \A y \in S : x <= y
Max(S) == CHOOSE x \in S : \A y \in S : y <= x

\* from_year, to_year = st.slider(min_value, max_value): any range of whole
\* years between the least and the greatest Year of the table.  A table
\* without rows has no bounds to offer and the script stops there.
Slider ==
    /\ pc = "settings"
    /\ IF elec_df.rows = <<>>
       THEN /\ pc' = "SliderError"
            /\ UNCHANGED <<from_year, to_year>>
       ELSE /\ \E lo \in Min(YearsOf(elec_df))..Max(YearsOf(elec_df)) :
                 \E hi \in lo..Max(YearsOf(elec_df)) :
                    /\ from_year' = lo
                    /\ to_year' = hi
            /\ pc' = "countries"
    /\ UNCHANGED <<csv, elec_df, selected_countries, selected_features,
                   first_year, last_year, fi, ci, metrics>>

\* elec_df['Country'].unique()
Countries(df) == {df.rows[i].Country : i \in 1..Len(df.rows)}

\* The sequences without repetition over S, every length.
Arrangements(S) ==
    {q \in UNION {[1..n -> S] : n \in 0..Cardinality(S)} :
        \A i, j \in 1..Len(q) : i # j => q[i] # q[j]}

\* selected_countries = st.multiselect(countries): the countries the user
\* has picked, in the order picked (the widget's default list only stands
\* until the first pick).
Multiselect ==
    /\ pc = "countries"
    /\ selected_countries' \in Arrangements(Countries(elec_df))
    /\ pc' = "features"
    /\ UNCHANGED <<csv, elec_df, from_year, to_year, selected_features,
                   first_year, last_year, fi, ci, metrics>>

\* available_features: the columns other than Country, Region and Year.
AvailableFeatures(df) == df.columns

\* The loop over available_features appends each ticked feature in order.
Checkboxes ==
    /\ pc = "features"
    /\ \E ticked \in SUBSET (1..Len(AvailableFeatures(elec_df))) :
          selected_features' =
             LET pick[k \in 0..Len(AvailableFeatures(elec_df))] ==
                   IF k = 0 THEN <<>>
                   ELSE IF k \in ticked THEN Append(pick[k - 1], AvailableFeatures(elec_df)[k])
                   ELSE pick[k - 1]
             IN  pick[Len(AvailableFeatures(elec_df))]
    /\ pc' = "filter"
    /\ UNCHANGED <<csv, elec_df, from_year, to_year, selected_countries,
                   first_year, last_year, fi, ci, metrics>>

InSeq(x, q) == \E i \in 1..Len(q) : q[i] = x

\* filtered_elec_df: the rows of the selected countries within the year range.
Filtered(df, countries, lo, hi) ==
    SelectSeq(df.rows, LAMBDA r : InSeq(r.Country, countries) /\ r.Year <= hi /\ lo <= r.Year)

AtYear(rows, y) == SelectSeq(rows, LAMBDA r : r.Year = y)

\* filtered_elec_df, first_year and last_year; then the feature loop is
\* entered, which has nothing to do without a feature and a country.
Filter ==
    /\ pc = "filter"
    /\ LET filtered == Filtered(elec_df, selected_countries, from_year, to_year)
       IN  /\ first_year' = AtYear(filtered, from_year)
           /\ last_year' = AtYear(filtered, to_year)
    /\ pc' = IF selected_features = <<>> \/ selected_countries = <<>> THEN "done" ELSE "metrics"
    /\ UNCHANGED <<csv, elec_df, from_year, to_year, selected_countries,
                   selected_features, fi, ci, metrics>>

InstalledCapacity == <<"i", "n", "s", "t", "a", "l", "l", "e", "d", " ",
                       "c", "a", "p", "a", "c", "i", "t", "y">>

ShortUnits(feature) == IF feature = InstalledCapacity THEN "M" ELSE "B"

OfCountry(rows, country) == SelectSeq(rows, LAMBDA r : r.Country = country)

\* Series.iat[0] raises IndexError on an empty selection.
IatRaises(rows, country) == OfCountry(rows, country) = <<>>

Iat0(rows, country, feature) == OfCountry(rows, country)[1].vals[feature]

\* f'{x:,.1f}%' as the number of tenths shown, or the text of a non-finite x.
Fmt1f(x) ==
    IF IsFinite(x) THEN [text |-> "%", n |-> RoundHalfEven(10 * x[1], x[2])]
    ELSE IF IsNaN(x) THEN [text |-> "nan%", n |-> 0]
    ELSE IF x = PosInf THEN [text |-> "inf%", n |-> 0]
    ELSE [text |-> "-inf%", n |-> 0]

\* f'{x:,.0f}{short_units}' as the whole number shown and its unit.
Fmt0f(x, unit) ==
    IF IsFinite(x) THEN [text |-> unit, n |-> RoundHalfEven(x[1], x[2])]
    ELSE IF IsNaN(x) THEN [text |-> "nan" \o unit, n |-> 0]
    ELSE IF x = PosInf THEN [text |-> "inf" \o unit, n |-> 0]
    ELSE [text |-> "-inf" \o unit, n |-> 0]

NotAvailable == [text |-> "n/a", n |-> 0]

\* Mutant: the change is taken relative to the last value.
PercentChangeOverLast(first_data, last_data) ==
    Div(MulInt(100, Sub(last_data, first_data)), last_data)

\* 100*(last_data-first_data) / first_data
PercentChange(first_data, last_data) ==
    Div(MulInt(100, Sub(last_data, first_data)), first_data)

\* Mutant: no test for a NaN first value.
GrowthUnguarded(first_data, last_data) == Fmt1f(PercentChange(first_data, last_data))

\* growth: 'n/a' when first_data is NaN, the formatted percent change otherwise.
Growth(first_data, last_data) ==
    IF IsNaN(first_data) THEN NotAvailable
    ELSE Fmt1f(PercentChange(first_data, last_data))

\* The body of the country loop for selected_features[fi] and
\* selected_countries[ci]: both lookups, then the card; an IndexError of
\* either lookup is not caught and ends the script.
Metric ==
    /\ pc = "metrics"
    /\ LET feature == selected_features[fi]
           country == selected_countries[ci]
       IN  IF IatRaises(first_year, country) \/ IatRaises(last_year, country)
           THEN /\ pc' = "IndexError"
                /\ UNCHANGED <<fi, ci, metrics>>
           ELSE LET first_data == Iat0(first_year, country, feature)
                    last_data  == Iat0(last_year, country, feature)
                IN  /\ metrics' = Append(metrics,
                                    [feature     |-> feature,
                                     label       |-> country,
                                     value       |-> Fmt0f(last_data, ShortUnits(feature)),
                                     delta       |-> Growth(first_data, last_data),
                                     delta_color |-> IF IsNaN(first_data) THEN "off" ELSE "normal"])
                    /\ IF ci < Len(selected_countries)
                       THEN /\ ci' = ci + 1
                            /\ UNCHANGED <<fi, pc>>
                       ELSE /\ ci' = 1
                            /\ fi' = fi + 1
                            /\ pc' = IF fi < Len(selected_features) THEN "metrics" ELSE "done"
    /\ UNCHANGED <<csv, elec_df, from_year, to_year, selected_countries,
                   selected_features, first_year, last_year>>

Next ==
    \/ GetElectricityData
    \/ Slider
    \/ Multiselect
    \/ Checkboxes
    \/ Filter
    \/ Metric

Spec == Init /\ [][Next]_vars

NextLoad == GetElectricityData

SpecLoad == InitLoad /\ [][NextLoad]_vars

-----------------------------------------------------------------------------
(* Vocabulary of the properties, stated on the CSV file and on the tables   *)
(* the script shows, independently of the operators above.                  *)

Loaded == pc \notin {"load", "ValueError"}

NonBlank(s) == {k \in 1..Len(s) : s[k] # " "}

\* s without its leading and trailing blanks.
Trimmed(s) == IF NonBlank(s) = {} THEN <<>> ELSE SubSeq(s, Min(NonBlank(s)), Max(NonBlank(s)))

LowerChar(c) ==
    CASE c = "A" -> "a" [] c = "D" -> "d" [] c = "E" -> "e" [] c = "F" -> "f"
      [] c = "G" -> "g" [] c = "L" -> "l" [] c = "N" -> "n" [] c = "R" -> "r"
      [] c = "U" -> "u" [] OTHER -> c

Lower(s) == [k \in 1..Len(s) |-> LowerChar(s[k])]

Sentinels == {<<"-", "-">>, <<"i", "e">>, <<>>}

NumericLiteral(c) ==
    /\ Trimmed(c) # <<>>
    /\ \A k \in 1..Len(Trimmed(c)) : Trimmed(c)[k] \in {"0", "1", "2", "5"}

\* A key cell the cleaning turns into a missing value.
MissingKey(x) == x \in Sentinels \/ x \in DefaultNaValues

RawCells == {<<i, j>> : i \in 1..Len(csv.rows), j \in 1..Len(csv.header)}

CellOf(c) == csv.rows[c[1]].cells[c[2]]

KeyOf(c) == <<Trimmed(csv.rows[c[1]].Country), csv.rows[c[1]].Region, DecVal(csv.header[c[2]])>>

FeatOf(c) == Trimmed(csv.rows[c[1]].Features)

KeysPresent(c) ==
    /\ ~MissingKey(csv.rows[c[1]].Country)
    /\ ~MissingKey(csv.rows[c[1]].Features)
    /\ ~MissingKey(csv.rows[c[1]].Region)

OutIdx == 1..Len(elec_df.rows)

OutKey(r) == <<elec_df.rows[r].Country, elec_df.rows[r].Region, elec_df.rows[r].Year>>

OutHasValue(r, f) == f \in DOMAIN elec_df.rows[r].vals /\ elec_df.rows[r].vals[f] # NaN

HasValue(key, f) == \E r \in OutIdx : OutKey(r) = key /\ OutHasValue(r, f)

ColumnSet == {elec_df.columns[k] : k \in 1..Len(elec_df.columns)}

-----------------------------------------------------------------------------
(* The loader                                                              *)

\* C1: no two rows of the normalized table share (Country, Region, Year).
C1_UniqueTriple ==
    Loaded => \A a, b \in OutIdx : a # b => OutKey(a) # OutKey(b)

\* Two raw rows whose Country differs only by padding, both with a number in
\* the same year, end up in one row.
C1_Witness ==
    /\ Loaded
    /\ Len(elec_df.rows) = 1
    /\ \E c, d \in RawCells :
          /\ csv.rows[c[1]].Country # csv.rows[d[1]].Country
          /\ KeyOf(c) = KeyOf(d)
          /\ NumericLiteral(CellOf(c)) /\ NumericLiteral(CellOf(d))
          /\ OutKey(1) = KeyOf(c)

\* Every non-null value of the table comes from a numeric raw cell of its
\* (country, region, year, feature).
OnlyNumericCellsGiveValues ==
    \A r \in OutIdx : \A f \in DOMAIN elec_df.rows[r].vals :
        OutHasValue(r, f) =>
            \E c \in RawCells : KeyOf(c) = OutKey(r) /\ FeatOf(c) = f /\ NumericLiteral(CellOf(c))

\* C2 as stated: a sentinel cell leaves no value for its (country, region,
\* year, feature), and a value is present only if a raw cell was numeric.
C2_SentinelLeavesNoValue ==
    Loaded =>
       /\ \A c \in RawCells : CellOf(c) \in Sentinels => ~HasValue(KeyOf(c), FeatOf(c))
       /\ OnlyNumericCellsGiveValues

\* C2 amended: a sentinel cell leaves no value for its (country, region, year,
\* feature) unless another raw row of the same trimmed Country, trimmed
\* Features and Region holds a number for that year; a value is present only
\* if a raw cell was numeric.
C2_SentinelLeavesNoValueUnlessDuplicate ==
    Loaded =>
       /\ \A c \in RawCells :
             CellOf(c) \in Sentinels /\ HasValue(KeyOf(c), FeatOf(c)) =>
                \E d \in RawCells : /\ d[1] # c[1]
                                    /\ KeyOf(d) = KeyOf(c)
                                    /\ FeatOf(d) = FeatOf(c)
                                    /\ NumericLiteral(CellOf(d))
       /\ OnlyNumericCellsGiveValues

\* A sentinel cell whose (country, region, year) row exists, fed by another
\* feature, and holds nothing for the sentinel's feature.
C2_Witness ==
    /\ Loaded
    /\ \E c \in RawCells :
          /\ CellOf(c) \in Sentinels
          /\ KeysPresent(c)
          /\ \E r \in OutIdx : OutKey(r) = KeyOf(c)
          /\ ~HasValue(KeyOf(c), FeatOf(c))

\* C3: every row of the normalized table holds at least one value.
C3_NoAllNullRow ==
    Loaded => \A r \in OutIdx : \E f \in DOMAIN elec_df.rows[r].vals : OutHasValue(r, f)

\* A (country, region, year) whose raw cells are all sentinels has no row,
\* in a table that has rows.
C3_Witness ==
    /\ Loaded
    /\ elec_df.rows # <<>>
    /\ \E c \in RawCells :
          /\ \A d \in RawCells : KeyOf(d) = KeyOf(c) => CellOf(d) \in Sentinels
          /\ \A r \in OutIdx : OutKey(r) # KeyOf(c)

\* C4: a year cell that is neither a sentinel nor a number makes the load
\* fail with a parse error and leaves no table.
C4_BadCellAbortsLoad ==
    pc # "load" /\ (\E c \in RawCells : CellOf(c) \notin Sentinels /\ ~NumericLiteral(CellOf(c)))
        => pc = "ValueError" /\ elec_df = EmptyFrame

\* The raw cells that reach the pivot: numeric, in a raw row whose Country,
\* Features and Region are all present.
Surviving == {c \in RawCells : NumericLiteral(CellOf(c)) /\ KeysPresent(c)}

C9_NumericCellsSurvive ==
    Loaded => \A c \in RawCells : NumericLiteral(CellOf(c)) => HasValue(KeyOf(c), FeatOf(c))

-----------------------------------------------------------------------------
(* The metrics                                                             *)

RowsOf(country, year) ==
    {r \in OutIdx : elec_df.rows[r].Country = country /\ elec_df.rows[r].Year = year}

RowExists(country, year) == RowsOf(country, year) # {}

ValueAt(country, year, feature) == elec_df.rows[Min(RowsOf(country, year))].vals[feature]

BothRowsExist(country) == RowExists(country, from_year) /\ RowExists(country, to_year)

Delivered == 1..Len(metrics)

\* The selected (feature, country) pairs, as positions in the two lists.
Pairs == (1..Len(selected_features)) \X (1..Len(selected_countries))

\* C5: a card whose first value is non-null and nonzero and whose last value
\* is non-null shows 100 * (last - first) / first (to one decimal), first and
\* last being the feature's values in the country's rows at from_year and
\* to_year; a finished run has shown the card of every selected pair.
C5_PercentChange ==
    /\ \A k \in Delivered :
          LET m     == metrics[k]
              first == ValueAt(m.label, from_year, m.feature)
              last  == ValueAt(m.label, to_year, m.feature)
          IN  /\ BothRowsExist(m.label)
              /\ IsFinite(first) /\ first[1] # 0 /\ IsFinite(last) =>
                    m.delta = [text |-> "%",
                               n |-> RoundHalfEven(
                                        Sign(first[1]) * 1000 * (last[1] * first[2] - first[1] * last[2]),
                                        last[2] * Abs(first[1]))]
    /\ pc = "done" =>
          /\ Len(metrics) = Len(selected_features) * Len(selected_countries)
          /\ \A p \in Pairs :
                LET m == metrics[(p[1] - 1) * Len(selected_countries) + p[2]]
                IN  m.feature = selected_features[p[1]] /\ m.label = selected_countries[p[2]]

\* From 100 to 150: 50.0%.
C5_Witness ==
    \E k \in Delivered :
       /\ ValueAt(metrics[k].label, from_year, metrics[k].feature) = <<100, 1>>
       /\ ValueAt(metrics[k].label, to_year, metrics[k].feature) = <<150, 1>>
       /\ metrics[k].delta = [text |-> "%", n |-> 500]

\* What C6 says of a state: every card belongs to a country with rows at both
\* years and shows "n/a" for a null first value, and a lookup error is at a
\* country without a row at from_year or to_year.
C6_State ==
    /\ \A k \in Delivered :
          /\ BothRowsExist(metrics[k].label)
          /\ IsNaN(ValueAt(metrics[k].label, from_year, metrics[k].feature)) =>
                metrics[k].delta = NotAvailable /\ metrics[k].delta_color = "off"
    /\ pc = "IndexError" => ~BothRowsExist(selected_countries[ci])

\* What C6 says of a step of the country loop: without a row at from_year or
\* to_year the step ends in the lookup error and shows no card; with both
\* rows it shows the card.
C6_Step ==
    pc = "metrics" =>
       IF BothRowsExist(selected_countries[ci])
       THEN pc' # "IndexError" /\ Len(metrics') = Len(metrics) + 1
       ELSE pc' = "IndexError" /\ metrics' = metrics

\* C6: a null first value in an existing row gives the card "n/a"; a country
\* without a row at from_year or to_year gives a lookup error and no card.
C6_NullIsNotMissingRow == [](C6_State) /\ [][C6_Step]_vars

\* A card showing "n/a" for a row that exists with the feature null.
C6_Witness ==
    \E k \in Delivered :
       /\ BothRowsExist(metrics[k].label)
       /\ IsNaN(ValueAt(metrics[k].label, from_year, metrics[k].feature))
       /\ metrics[k].delta = NotAvailable

HasCard(feature, country) ==
    \E k \in Delivered : metrics[k].feature = feature /\ metrics[k].label = country

\* C7: when the script has ended, by a lookup error or not, every selected
\* pair whose country has rows at both years has its card.
C7_LookupErrorKeepsSiblings ==
    pc \in {"done", "IndexError"} =>
       \A p \in Pairs :
          BothRowsExist(selected_countries[p[2]]) =>
             HasCard(selected_features[p[1]], selected_countries[p[2]])

\* C10: a zero first value with a non-null last value is shown as "n/a".
C10_ZeroFirstIsNotAvailable ==
    \A k \in Delivered :
       LET first == ValueAt(metrics[k].label, from_year, metrics[k].feature)
           last  == ValueAt(metrics[k].label, to_year, metrics[k].feature)
       IN  first = <<0, 1>> /\ ~IsNaN(last) => metrics[k].delta = NotAvailable

====
